---- MODULE Spec2Model ----
(***************************************************************************)
(* Model of the `ranges` crate (src/src/lib.rs): a Vec of half-open        *)
(* std::ops::Range values that add_range expands and merges.               *)
(*                                                                         *)
(* Three specifications share the helper operators:                        *)
(*   Spec      - add_range as one atomic call, well-formed inputs only     *)
(*   StepSpec  - add_range executed invocation by invocation on an         *)
(*               explicit call stack, arbitrary inputs, with fairness      *)
(*   FlatSpec  - flatten_range applied to a pair of well-formed ranges     *)
(***************************************************************************)
EXTENDS Integers, Sequences, FiniteSets, TLC

VARIABLES
    ranges,     \* Ranges.0 : the Vec<Range<T>>, in Vec order
    history,    \* Spec: the arguments of the add_range calls made so far
    before,     \* to_vec()'s input (self.0) when the last top-level call began
    stack,      \* StepSpec: active add_range invocations, outermost first
    calls,      \* StepSpec: number of top-level add_range calls made
    arg,        \* StepSpec: argument of the last top-level call
    allWF,      \* StepSpec: every top-level argument so far had start < end
    depth,      \* StepSpec: deepest nesting reached during the last call
    left,       \* FlatSpec: flatten_range's `left` (mutated in place)
    right,      \* FlatSpec: flatten_range's `right`
    left_in,    \* FlatSpec: the value of `left` when flatten_range was called
    expanded,   \* FlatSpec: flatten_range's return value
    pc          \* FlatSpec: "call" before flatten_range runs, "done" after

vars == <<ranges, history, before, stack, calls, arg, allWF, depth,
          left, right, left_in, expanded, pc>>

---------------------------------------------------------------------------
(* Bounds *)

\* Spec and FlatSpec: bounds are taken from 0..MaxPoint
MaxPoint == 5
\* Spec: number of add_range calls
MaxAdds == 4
\* StepSpec: bounds are taken from 0..MaxVal
MaxVal == 3
\* StepSpec: number of top-level add_range calls
MaxCalls == 3
\* StepSpec: cap on the call stack; above any depth the code reaches
MaxStack == MaxCalls + 2

Range(s, e) == [start |-> s, end |-> e]

WellFormed(r) == r.start < r.end

WFRanges == {r \in [start : 0..MaxPoint, end : 0..MaxPoint] : WellFormed(r)}

AnyRanges == [start : 0..MaxVal, end : 0..MaxVal]

---------------------------------------------------------------------------
(* Pure functions of lib.rs *)

\* std::ops::Range::contains, as used by overlaps and flatten_range
contains(r, x) == r.start <= x /\ x < r.end

overlaps(l, r) ==
    \/ contains(l, r.start)
    \/ contains(l, r.end)
    \/ contains(r, l.start)
    \/ contains(r, l.end)

\* flatten_range with an off-by-one end bound in the (true, false) arm
flatten_range_end_off_by_one(l, r) ==
    LET cs == contains(l, r.start)
        ce == contains(l, r.end)
    IN  IF cs /\ ce THEN [left |-> l, expanded |-> FALSE]
        ELSE IF cs THEN [left |-> Range(l.start, r.end + 1), expanded |-> TRUE]
        ELSE IF ce THEN [left |-> Range(r.start, l.end), expanded |-> TRUE]
        ELSE IF contains(r, l.start) /\ contains(r, l.end)
             THEN [left |-> Range(r.start, r.end), expanded |-> TRUE]
        ELSE IF contains(r, l.start)
             THEN [left |-> Range(r.start, l.end), expanded |-> TRUE]
        ELSE [left |-> l, expanded |-> FALSE]

\* flatten_range: the new value of *left and the returned flag
flatten_range(l, r) ==
    LET cs == contains(l, r.start)
        ce == contains(l, r.end)
    IN  IF cs /\ ce THEN [left |-> l, expanded |-> FALSE]
        ELSE IF cs THEN [left |-> Range(l.start, r.end), expanded |-> TRUE]
        ELSE IF ce THEN [left |-> Range(r.start, l.end), expanded |-> TRUE]
        ELSE IF contains(r, l.start) /\ contains(r, l.end)
             THEN [left |-> Range(r.start, r.end), expanded |-> TRUE]
        ELSE IF contains(r, l.start)
             THEN [left |-> Range(r.start, l.end), expanded |-> TRUE]
        ELSE [left |-> l, expanded |-> FALSE]

\* the fast-path test with `any` in place of `all`
NoOverlap_any(v, r) ==
    v = <<>> \/ \E i \in 1..Len(v) : ~overlaps(v[i], r)

\* add_range's fast-path test: is_empty() || iter().all(|v| !overlaps(v, &range))
NoOverlap(v, r) ==
    v = <<>> \/ \A i \in 1..Len(v) : ~overlaps(v[i], r)

\* self.0 after the iter_mut().filter(overlaps) loop has flattened in place
Flattened(v, r) ==
    [i \in 1..Len(v) |->
        IF overlaps(v[i], r) THEN flatten_range(v[i], r).left ELSE v[i]]

\* the `expanded` vec built by that loop, in Vec order
ExpandedList(v, r) ==
    LET res == [i \in 1..Len(v) |->
                   [hit |-> overlaps(v[i], r), f |-> flatten_range(v[i], r)]]
        sel == SelectSeq(res, LAMBDA x : x.hit /\ x.f.expanded)
    IN  [i \in 1..Len(sel) |-> sel[i].f.left]

\* retain that removes nothing
retain_keep(v, e) == v

\* self.0.retain(|v| v != &expand)
retain(v, e) == SelectSeq(v, LAMBDA x : x # e)

RECURSIVE add_range(_, _)
RECURSIVE ReAddAll(_, _)

\* the re-add loop that removes each expanded range but never re-adds it
ReAddAll_no_readd(v, exp) ==
    IF exp = <<>> THEN v
    ELSE ReAddAll(retain(v, Head(exp)), Tail(exp))

\* for expand in expanded { retain(..); self.add_range(expand); }
ReAddAll(v, exp) ==
    IF exp = <<>> THEN v
    ELSE ReAddAll(add_range(retain(v, Head(exp)), Head(exp)), Tail(exp))

\* Ranges::add_range as a function from (self.0, range) to the new self.0
add_range(v, r) ==
    IF NoOverlap(v, r) THEN Append(v, r)
    ELSE ReAddAll(Flattened(v, r), ExpandedList(v, r))

RECURSIVE InsertByStart(_, _)
\* stable insertion: x goes before the first element whose start is >= x.start
InsertByStart(x, s) ==
    IF s = <<>> THEN <<x>>
    ELSE IF x.start <= Head(s).start THEN <<x>> \o s
    ELSE <<Head(s)>> \o InsertByStart(x, Tail(s))

RECURSIVE SortByStart(_)
\* results.sort_by_key(|r| r.start), a stable sort
SortByStart(v) ==
    IF v = <<>> THEN <<>>
    ELSE InsertByStart(Head(v), SortByStart(Tail(v)))

\* Ranges::to_vec
to_vec(v) == SortByStart(v)

---------------------------------------------------------------------------
(* Spec: add_range as one call, well-formed arguments *)

Init ==
    /\ ranges = <<>>
    /\ history = <<>>
    /\ before = <<>>
    /\ stack = <<>>
    /\ calls = 0
    /\ arg = Range(0, 0)
    /\ allWF = TRUE
    /\ depth = 0
    /\ left = Range(0, 0)
    /\ right = Range(0, 0)
    /\ left_in = Range(0, 0)
    /\ expanded = FALSE
    /\ pc = "idle"

AddRange(r) ==
    /\ Len(history) < MaxAdds
    /\ before' = ranges
    /\ ranges' = add_range(ranges, r)
    /\ history' = Append(history, r)
    /\ UNCHANGED <<stack, calls, arg, allWF, depth,
                   left, right, left_in, expanded, pc>>

Next == \E r \in WFRanges : AddRange(r)

Spec == Init /\ [][Next]_vars

---------------------------------------------------------------------------
(* Properties of Spec *)

Min(a, b) == IF a <= b THEN a ELSE b
Max(a, b) == IF a >= b THEN a ELSE b

Points == 0..MaxPoint

SeqToSet(s) == {s[i] : i \in 1..Len(s)}

\* the exported sequence of the collection
Exported == to_vec(ranges)

\* x lies in some interval that was added
WasAdded(x) == \E i \in 1..Len(history) : contains(history[i], x)

\* number of exported intervals (counted by position) that hold x
HoldCount(x) == Cardinality({j \in 1..Len(Exported) : contains(Exported[j], x)})

\* two well-formed intervals have a point in common
SharesPoint(a, b) == Max(a.start, b.start) < Min(a.end, b.end)

\* a covers b
Covers(a, b) == a.start <= b.start /\ b.end <= a.end

\* C1: after any sequence of add_range calls with well-formed intervals, no
\* two distinct intervals returned by to_vec overlap (four-way half-open test).
C1_Disjoint ==
    \A i, j \in 1..Len(Exported) :
        Exported[i] # Exported[j] => ~overlaps(Exported[i], Exported[j])

\* C1 witness: two intervals are held, one of them the product of a merge
C1_Witness ==
    /\ Len(ranges) >= 2
    /\ Len(history) > Len(ranges)
    /\ \E i \in 1..Len(ranges) :
          ranges[i] \notin {history[k] : k \in 1..Len(history)}

\* C2: every point of every added interval lies in exactly one interval of
\* to_vec().
C2_CoveragePreserved ==
    \A x \in Points : WasAdded(x) => HoldCount(x) = 1

\* C3: every point that lies in an interval of to_vec() lies in at least one
\* added interval.
C3_NoSpuriousCoverage ==
    \A x \in Points : HoldCount(x) >= 1 => WasAdded(x)

\* C3 witness: the collection holds a merged interval that was never added
C3_Witness ==
    /\ Len(history) >= 2
    /\ \E i \in 1..Len(ranges) :
          /\ ranges[i] \notin SeqToSet(history)
          /\ ranges[i].end - ranges[i].start >= 3

\* the arguments of the calls so far, reordered by the permutation f
Permuted(f) == [i \in 1..Len(history) |-> history[f[i]]]

RECURSIVE AddAll(_, _)
\* add_range applied to each element of seq in turn
AddAll(v, seq) ==
    IF seq = <<>> THEN v ELSE AddAll(add_range(v, Head(seq)), Tail(seq))

\* C4: adding the same intervals to an empty collection in any permuted order
\* gives the same to_vec() result.
C4_OrderIndependent ==
    \A f \in Permutations(1..Len(history)) :
        to_vec(AddAll(<<>>, Permuted(f))) = Exported

\* C5: add_range of a well-formed interval that some held interval fully
\* covers leaves to_vec() as it was before the call.
C5_CoveredAddIsNoOp ==
    (/\ Len(history) >= 1
     /\ \E i \in 1..Len(before) : Covers(before[i], history[Len(history)]))
    => Exported = to_vec(before)

\* C5 witness: the added interval was covered and ends where its cover ends,
\* so the cover was flattened, removed and re-added
C5_Witness ==
    /\ Len(history) >= 2
    /\ Len(before) >= 2
    /\ \E i \in 1..Len(before) :
          /\ Covers(before[i], history[Len(history)])
          /\ before[i].end = history[Len(history)].end
          /\ before[i].start < history[Len(history)].start
    /\ Exported = to_vec(before)

\* C6: [a,b) and [b,c) added to an empty collection in either order give
\* the single interval [a,c); and [0,1), [2,3), [1,2) give [0,3).
C6_TouchingMerge ==
    /\ (/\ Len(history) = 2
        /\ history[1].end = history[2].start)
       => Exported = <<Range(history[1].start, history[2].end)>>
    /\ (/\ Len(history) = 2
        /\ history[2].end = history[1].start)
       => Exported = <<Range(history[2].start, history[1].end)>>
    /\ history = <<Range(0, 1), Range(2, 3), Range(1, 2)>>
       => Exported = <<Range(0, 3)>>

\* the held intervals that shared a point with the last added interval
Bridged == {h \in SeqToSet(before) : SharesPoint(h, history[Len(history)])}

\* the interval from the least start to the greatest end of R and Bridged
Hull(R, S) ==
    Range(CHOOSE lo \in Points :
              /\ lo \in {R.start} \cup {h.start : h \in S}
              /\ \A h \in S : lo <= h.start
              /\ lo <= R.start,
          CHOOSE hi \in Points :
              /\ hi \in {R.end} \cup {h.end : h \in S}
              /\ \A h \in S : hi >= h.end
              /\ hi >= R.end)

\* C7: when the added interval R shares a point with two or more held
\* intervals, to_vec() afterwards has exactly one interval covering R and all
\* of them, it is [min start, max end), and none of them stays separately.
C7_BridgingMerge ==
    (Len(history) >= 1 /\ Cardinality(Bridged) >= 2) =>
        LET R == history[Len(history)]
            hull == Hull(R, Bridged)
        IN  /\ Cardinality({j \in 1..Len(Exported) :
                               Covers(Exported[j], hull)}) = 1
            /\ \E j \in 1..Len(Exported) : Exported[j] = hull
            /\ \A h \in Bridged : h # hull => h \notin SeqToSet(ranges)

---------------------------------------------------------------------------
(* StepSpec: add_range one invocation at a time, arbitrary arguments *)

\* an active invocation of add_range: `range` is its argument; pc is "entry"
\* before line 55 has run and "loop" while the `for expand in expanded` loop
\* of lines 67-70 runs, with `expanded` the elements still to be re-added
Frame(p, r, exp) == [pc |-> p, range |-> r, expanded |-> exp]

Top == stack[Len(stack)]

Pop == SubSeq(stack, 1, Len(stack) - 1)

\* a caller invokes add_range(r) on the collection
Call(r) ==
    /\ stack = <<>>
    /\ calls < MaxCalls
    /\ stack' = <<Frame("entry", r, <<>>)>>
    /\ calls' = calls + 1
    /\ arg' = r
    /\ allWF' = (allWF /\ WellFormed(r))
    /\ before' = ranges
    /\ depth' = 0
    /\ UNCHANGED <<ranges, history, left, right, left_in, expanded, pc>>

\* lines 55-65: the fast path pushes and returns; otherwise the overlapping
\* elements are flattened in place and the expanded ones collected
Enter ==
    /\ stack # <<>>
    /\ Top.pc = "entry"
    /\ \/ /\ NoOverlap(ranges, Top.range)
          /\ ranges' = Append(ranges, Top.range)
          /\ stack' = Pop
       \/ /\ ~NoOverlap(ranges, Top.range)
          /\ ranges' = Flattened(ranges, Top.range)
          /\ stack' = Append(Pop, Frame("loop", Top.range,
                                        ExpandedList(ranges, Top.range)))
    /\ UNCHANGED <<history, before, calls, arg, allWF, depth,
                   left, right, left_in, expanded, pc>>

\* lines 67-69: take the next expanded range, retain, and recurse
ReAdd ==
    /\ stack # <<>>
    /\ Top.pc = "loop"
    /\ Top.expanded # <<>>
    /\ Len(stack) < MaxStack
    /\ ranges' = retain(ranges, Head(Top.expanded))
    /\ stack' = Append(Append(Pop, Frame("loop", Top.range, Tail(Top.expanded))),
                       Frame("entry", Head(Top.expanded), <<>>))
    /\ depth' = Max(depth, Len(stack))
    /\ UNCHANGED <<history, before, calls, arg, allWF,
                   left, right, left_in, expanded, pc>>

\* line 71: the loop is exhausted and the invocation returns
Return ==
    /\ stack # <<>>
    /\ Top.pc = "loop"
    /\ Top.expanded = <<>>
    /\ stack' = Pop
    /\ UNCHANGED <<ranges, history, before, calls, arg, allWF, depth,
                   left, right, left_in, expanded, pc>>

Run == Enter \/ ReAdd \/ Return

StepNext == (\E r \in AnyRanges : Call(r)) \/ Enter \/ ReAdd \/ Return

\* a started call runs to completion: the code is synchronous and
\* single-threaded, so a runnable invocation always takes its next step
StepSpec == Init /\ [][StepNext]_vars /\ WF_vars(Run)

\* every call that has returned left the Vec the atomic add_range computes
StepMatchesAtomic ==
    (stack = <<>> /\ calls >= 1) => ranges = add_range(before, arg)

\* C8: every add_range call terminates, for every input pair including
\* degenerate and inverted ones, from every reachable collection.
C8_Terminates == (stack # <<>>) ~> (stack = <<>>)

\* C8 witness: a call with a degenerate or inverted argument recursed and
\* has returned
C8_Witness ==
    /\ stack = <<>>
    /\ calls >= 2
    /\ ~WellFormed(arg)
    /\ depth >= 1

\* C10: with well-formed arguments only, the number of nested recursive
\* add_range invocations active at once (the top-level call not counted) never
\* exceeds the number of intervals held when the top-level call began.
C10_DepthBounded ==
    (allWF /\ stack # <<>>) => Len(stack) - 1 <= Len(before)

\* C10 witness: the nesting reaches the size of a collection of two or more
C10_Witness ==
    /\ allWF
    /\ Len(before) >= 2
    /\ Len(stack) - 1 = Len(before)

---------------------------------------------------------------------------
(* FlatSpec: flatten_range on a pair of well-formed ranges *)

FlatInit ==
    /\ ranges = <<>>
    /\ history = <<>>
    /\ before = <<>>
    /\ stack = <<>>
    /\ calls = 0
    /\ arg = Range(0, 0)
    /\ allWF = TRUE
    /\ depth = 0
    /\ left \in WFRanges
    /\ right \in WFRanges
    /\ left_in = left
    /\ expanded = FALSE
    /\ pc = "call"

\* add_range calls flatten_range only on elements that overlap the argument
FlattenRange ==
    /\ pc = "call"
    /\ overlaps(left, right)
    /\ left' = flatten_range(left, right).left
    /\ expanded' = flatten_range(left, right).expanded
    /\ pc' = "done"
    /\ UNCHANGED <<ranges, history, before, stack, calls, arg, allWF, depth,
                   right, left_in>>

FlatNext == FlattenRange

FlatSpec == FlatInit /\ [][FlatNext]_vars

\* C9: for well-formed L and R with overlaps(L, R), flatten_range leaves L
\* equal to [min(L.start, R.start), max(L.end, R.end)); equivalently the
\* no-change row (L holds neither bound of R, R holds L.end but not L.start)
\* is never taken.
C9_FlattenCovers ==
    pc = "done" =>
        /\ left = Range(Min(left_in.start, right.start),
                        Max(left_in.end, right.end))
        /\ ~(/\ ~contains(left_in, right.start)
             /\ ~contains(left_in, right.end)
             /\ ~contains(right, left_in.start)
             /\ contains(right, left_in.end))

====
